---- MODULE Spec2Model ----
(***************************************************************************)
(* Model of getReportInSnowflake (src/universalAnalytics.py): the day-by-  *)
(* day, page-by-page transfer of Universal Analytics reports to a          *)
(* Snowflake table, followed by one entry in a log table.                  *)
(*                                                                         *)
(* The remote reporting service and the warehouse are the environment:     *)
(* every fetch may return any page or fail, every shaping, casting, write  *)
(* and count may succeed or raise.  An exception is never caught in the    *)
(* source, so a raise ends the run (pc = "aborted").                       *)
(***************************************************************************)
EXTENDS Integers, Sequences, FiniteSets, TLC

VARIABLES
    pc,                 \* position in getReportInSnowflake
    start_date,         \* argument, 'YYYY-MM-DD' as <<y, m, d>>
    end_date,           \* argument, 'YYYY-MM-DD' as <<y, m, d>>
    page_token_arg,     \* the value the caller passed as page_token
    dimensions,         \* argument: the dimension names asked for
    metrics,            \* argument: the metric expressions asked for
    page_token,         \* the local/parameter page_token
    total_rows,
    api_calls_counter,
    current_date,       \* datetime, as a proleptic Gregorian ordinal
    end,                \* datetime, as a proleptic Gregorian ordinal
    current_start_date, \* line 130
    current_end_date,   \* line 131
    response,           \* the last page fetched
    dataframe,          \* the local `dataframe` (unbound until line 150 runs)
    rows,               \* line 168
    logEntry,           \* line 186
    dataTable,          \* rows in [database, schema, table], one batch per write
    logTable,           \* rows in [database_log, schema_log, table_log]
    returned,           \* the value returned on line 211
    failure,            \* which call raised, "none" while nothing has
    requests,           \* history: bodies of the batchGet calls issued
    responses,          \* history: pages received
    visited,            \* history: current_start_date of every outer iteration
    appender_returns,   \* history: counts returned by dataframeToSnowflake on line 168
    calls,              \* history: components called, in order
    report,             \* the page content handed to responseToDataframe
    records             \* the data and schema responseToDataframe returns

vars == <<pc, start_date, end_date, page_token_arg, page_token, total_rows,
          api_calls_counter, current_date, end, current_start_date,
          current_end_date, response, dataframe, rows, logEntry, dataTable,
          logTable, returned, failure, requests, responses, visited,
          appender_returns, calls, dimensions, metrics, report, records>>

----------------------------------------------------------------------------
(* Bounds of the model *)

\* remote fetches in one run; the inner loop itself has no bound
MaxFetches == 3

\* rows in one report page
MaxRows == 2

\* start_date and end_date are drawn from FirstDate .. FirstDate + MaxSpan days
MaxSpan == 2

----------------------------------------------------------------------------
(* Values *)

\* Python's None
None == <<>>

\* the opaque cursor the service hands out with its k-th page
Token(k) == <<k>>

\* a token the caller may pass in; the service never issues it
CallerToken == Token(0)

\* a local variable that has not been assigned yet
Unbound == [bound |-> FALSE, nrows |-> 0, loadtimestamp |-> FALSE]

NoResponse == [rows |-> 0, nextPageToken |-> None]

NoDate == <<0, 0, 0>>

NoEntry == [StartDate |-> NoDate, EndDate |-> NoDate, RecordsSent |-> 0,
            TableName |-> "none", APICalls |-> 0]

\* the `table` argument
DataTableName == "data"

----------------------------------------------------------------------------
(* datetime: strptime('%Y-%m-%d'), strftime('%Y-%m-%d'), timedelta(days=1) *)

IsLeap(y) == (y % 4 = 0) /\ ((y % 100 # 0) \/ (y % 400 = 0))

DaysInMonth(y, m) ==
    IF m \in {1, 3, 5, 7, 8, 10, 12} THEN 31
    ELSE IF m \in {4, 6, 9, 11} THEN 30
    ELSE IF IsLeap(y) THEN 29 ELSE 28

RECURSIVE DaysBeforeMonth(_, _)
DaysBeforeMonth(y, m) ==
    IF m = 1 THEN 0 ELSE DaysBeforeMonth(y, m - 1) + DaysInMonth(y, m - 1)

DaysBeforeYear(y) ==
    LET p == y - 1 IN p * 365 + (p \div 4) - (p \div 100) + (p \div 400)

\* the years the model's dates fall in
Years == 2023..2025

\* datetime.strptime(s, '%Y-%m-%d'): the date as a day ordinal
strptime(s) == DaysBeforeYear(s[1]) + DaysBeforeMonth(s[1], s[2]) + s[3]

\* d.strftime('%Y-%m-%d'): the day ordinal back to year, month, day
strftime(n) ==
    LET y == CHOOSE yy \in Years :
                 DaysBeforeYear(yy) < n /\ n <= DaysBeforeYear(yy + 1)
        r == n - DaysBeforeYear(y)
        m == CHOOSE mm \in 1..12 :
                 DaysBeforeMonth(y, mm) < r
                 /\ r <= DaysBeforeMonth(y, mm) + DaysInMonth(y, mm)
    IN <<y, m, r - DaysBeforeMonth(y, m)>>

\* the first date a caller passes in the model (a leap year's 28 February)
FirstDate == <<2024, 2, 28>>

DateStrings == { strftime(strptime(FirstDate) + k) : k \in 0..MaxSpan }

----------------------------------------------------------------------------
(* The pieces of getReportInSnowflake *)

\* line 120: the assignment that precedes the first use of page_token
InitialPageToken(arg) == None

\* line 129 with < for <=
LoopCondExclusive(cur, e) == cur < e

\* line 129 with != for <=
LoopCondNotEqual(cur, e) == cur # e

\* line 129
LoopCond(cur, e) == cur <= e

\* line 139 asking for the rest of the range, as get_report in main.py does
RequestBodyToRangeEnd(sd, ed, tok) ==
    [startDate |-> sd, endDate |-> end_date, pageToken |-> tok]

\* lines 134-146: the body of one batchGet call
RequestBody(sd, ed, tok) == [startDate |-> sd, endDate |-> ed, pageToken |-> tok]

\* what the service may answer to the k-th call: a page of 0..MaxRows rows
\* (no 'rows' key when there are none), with or without a nextPageToken
Pages(k) == [rows : 0..MaxRows, nextPageToken : {None, Token(k)}]

\* line 148 without its test
HasRowsAlways(resp) == TRUE

\* line 148
HasRows(resp) == resp.rows > 0

\* line 174
HasNextPageToken(resp) == resp.nextPageToken # None

\* lines 23-49: one record per row of the page
responseToDataframe(resp) ==
    [bound |-> TRUE, nrows |-> resp.rows, loadtimestamp |-> FALSE]

\* lines 153-165: casts, and the LOADTIMESTAMP column
Normalize(df) == [df EXCEPT !.loadtimestamp = TRUE]

\* line 67 with mode("overwrite"): the write replaces what the table held
SaveAsTableOverwrites(tbl, batch) == <<batch>>

\* line 67: write.mode("append").save_as_table adds the batch to the table
SaveAsTable(tbl, batch) == Append(tbl, batch)

\* line 68
Count(df) == df.nrows

\* line 170 written as `total_rows = rows`
AddRowsOverwrites(total, r) == r

\* line 170
AddRows(total, r) == total + r

\* line 171 written as `api_calls_counter += rows`
NextCounterAddsRows(c) == c + rows

\* line 171
NextCounter(c) == c + 1

\* line 175 left out: the loop continues with the token it already had
TokenAfterPageKept(resp, tok) == tok

\* lines 174-177: the token the next request of the inner loop carries
TokenAfterPage(resp, tok) ==
    IF HasNextPageToken(resp) THEN resp.nextPageToken ELSE tok

\* line 182
NextDate(cur) == cur + 1

\* lines 186-192 with the day reached in place of the end_date argument
MakeLogEntryStartAsEnd(sd, ed, total, tbl, ncalls) ==
    [StartDate |-> sd, EndDate |-> sd, RecordsSent |-> total,
     TableName |-> tbl, APICalls |-> ncalls]

\* lines 186-192
MakeLogEntry(sd, ed, total, tbl, ncalls) ==
    [StartDate |-> sd, EndDate |-> ed, RecordsSent |-> total,
     TableName |-> tbl, APICalls |-> ncalls]

\* the exception caught around the loop, the run going on to its log entry
AbortThenLog(kind) == pc' = "log_build" /\ failure' = kind

\* an uncaught exception: the run ends where it was raised
Abort(kind) == pc' = "aborted" /\ failure' = kind

----------------------------------------------------------------------------
(* responseToDataframe, on the content of a page *)

\* the lists a caller may pass as `dimensions` and as `metrics`
CallerDimensions == {<<"ga:date">>, <<"ga:date", "ga:source">>}
CallerMetrics == {<<"ga:sessions">>, <<"ga:sessions", "ga:users">>}

\* the names a page's column header may declare
HeaderDimensionNames == <<"ga:date", "ga:source">>
HeaderMetricEntries ==
    <<[name |-> "ga:sessions", type |-> "INTEGER"],
      [name |-> "ga:users", type |-> "INTEGER"]>>

\* the values a row may hold
DimensionValues == {"20240228", "google"}
MetricValues == {"1", "2"}

\* the rows of a page with nd dimensions and nm metrics; the request has one
\* date range (line 139), so a row has one entry of metric values
ReportRows(nd, nm) ==
    [dimensions : [1..nd -> DimensionValues],
     metrics : { <<v>> : v \in [values : [1..nm -> MetricValues]] }]

\* response['reports'][0] of the pages that carry rows
Reports ==
    UNION { [columnHeader :
                {[dimensions |-> SubSeq(HeaderDimensionNames, 1, nd),
                  metricHeader |->
                      [metricHeaderEntries |-> SubSeq(HeaderMetricEntries, 1, nm)]]},
             data : [rows : UNION { [1..n -> ReportRows(nd, nm)] : n \in 1..MaxRows }]]
            : nd \in 1..Len(HeaderDimensionNames),
              nm \in 1..Len(HeaderMetricEntries) }

NoReport ==
    [columnHeader |-> [dimensions |-> <<>>,
                       metricHeader |-> [metricHeaderEntries |-> <<>>]],
     data |-> [rows |-> <<>>]]

NoRecords == [data |-> <<>>, schema |-> <<>>]

\* line 38 taking the names from the caller's list
HeaderDimensionsOfCaller(rep) == dimensions

\* line 38
HeaderDimensions(rep) == rep.columnHeader.dimensions

\* line 39
HeaderMetrics(rep) ==
    LET entries == rep.columnHeader.metricHeader.metricHeaderEntries
    IN [k \in 1..Len(entries) |-> entries[k].name]

\* line 46: the values of all entries of row['metrics'], in order
RECURSIVE MetricsValues(_)
MetricsValues(ms) ==
    IF ms = <<>> THEN <<>> ELSE Head(ms).values \o MetricsValues(Tail(ms))

\* lines 42-47
RowData(rep) ==
    [i \in 1..Len(rep.data.rows) |->
        rep.data.rows[i].dimensions \o MetricsValues(rep.data.rows[i].metrics)]

\* line 49: session.createDataFrame(data, schema = ...)
createDataFrame(data, schema) == [data |-> data, schema |-> schema]

\* lines 38-49
ShapedRecords(rep) ==
    createDataFrame(RowData(rep), HeaderDimensions(rep) \o HeaderMetrics(rep))

----------------------------------------------------------------------------
(* The run *)

args == <<start_date, end_date, page_token_arg, dimensions, metrics>>
shaping == <<report, records>>
dates == <<current_date, end, current_start_date, current_end_date>>
counters == <<total_rows, api_calls_counter>>
tables == <<dataTable, logTable>>

\* the call of getReportInSnowflake: the arguments are bound, nothing has run
Init ==
    /\ pc = "entry"
    /\ start_date \in DateStrings
    /\ end_date \in DateStrings
    /\ page_token_arg \in {None, CallerToken}
    /\ page_token = page_token_arg
    /\ total_rows = 0
    /\ api_calls_counter = 0
    /\ current_date = 0
    /\ end = 0
    /\ current_start_date = NoDate
    /\ current_end_date = NoDate
    /\ response = NoResponse
    /\ dataframe = Unbound
    /\ rows = 0
    /\ logEntry = NoEntry
    /\ dataTable = <<>>
    /\ logTable = <<>>
    /\ returned = None
    /\ failure = "none"
    /\ requests = <<>>
    /\ responses = <<>>
    /\ visited = <<>>
    /\ appender_returns = <<>>
    /\ calls = <<>>
    /\ dimensions = <<"ga:date">>
    /\ metrics = <<"ga:sessions">>
    /\ report = NoReport
    /\ records = NoRecords

\* lines 120-127
Setup ==
    /\ pc = "entry"
    /\ page_token' = InitialPageToken(page_token)
    /\ total_rows' = 0
    /\ api_calls_counter' = 0
    /\ current_date' = strptime(start_date)
    /\ end' = strptime(end_date)
    /\ pc' = "outer_test"
    /\ UNCHANGED <<args, shaping, current_start_date, current_end_date, response,
                   dataframe, rows, logEntry, tables, returned, failure,
                   requests, responses, visited, appender_returns, calls>>

\* lines 129-131: the outer loop's test and the day's two date strings
OuterTest ==
    /\ pc = "outer_test"
    /\ IF LoopCond(current_date, end)
       THEN /\ current_start_date' = strftime(current_date)
            /\ current_end_date' = strftime(current_date)
            /\ visited' = Append(visited, strftime(current_date))
            /\ pc' = "fetch"
       ELSE /\ UNCHANGED <<current_start_date, current_end_date, visited>>
            /\ pc' = "log_build"
    /\ UNCHANGED <<args, shaping, page_token, counters, current_date, end, response,
                   dataframe, rows, logEntry, tables, returned, failure,
                   requests, responses, appender_returns, calls>>

\* lines 133-146: one batchGet(...).execute(); the service answers or raises
Fetch ==
    /\ pc = "fetch"
    /\ Len(requests) < MaxFetches
    /\ requests' = Append(requests,
                     RequestBody(current_start_date, current_end_date, page_token))
    /\ calls' = Append(calls, "fetch")
    /\ \/ \E p \in Pages(Len(requests) + 1) :
             /\ response' = p
             /\ responses' = Append(responses, p)
             /\ pc' = "rows_test"
             /\ UNCHANGED failure
       \/ /\ Abort("fetch")
          /\ UNCHANGED <<response, responses>>
    /\ UNCHANGED <<args, shaping, page_token, counters, dates, dataframe, rows,
                   logEntry, tables, returned, visited, appender_returns>>

\* line 171 moved up so that it counts every fetched page
RowsTestCountsEveryPage ==
    /\ pc = "rows_test"
    /\ pc' = IF HasRows(response) THEN "shape" ELSE "advance"
    /\ api_calls_counter' =
           IF HasRows(response) THEN api_calls_counter ELSE api_calls_counter + 1
    /\ UNCHANGED <<args, shaping, page_token, total_rows, dates, response, dataframe,
                   rows, logEntry, tables, returned, failure, requests,
                   responses, visited, appender_returns, calls>>

\* line 148, and the break of line 180
RowsTest ==
    /\ pc = "rows_test"
    /\ pc' = IF HasRows(response) THEN "shape" ELSE "advance"
    /\ UNCHANGED <<args, shaping, page_token, counters, dates, response, dataframe,
                   rows, logEntry, tables, returned, failure, requests,
                   responses, visited, appender_returns, calls>>

\* lines 153-165 left out: the shaped page goes straight to the appender
ShapeThenAppend ==
    /\ pc = "shape"
    /\ calls' = Append(calls, "shape")
    /\ \/ /\ dataframe' = responseToDataframe(response)
          /\ pc' = "append_save"
          /\ UNCHANGED failure
       \/ /\ Abort("shape")
          /\ UNCHANGED dataframe
    /\ UNCHANGED <<args, shaping, page_token, counters, dates, response, rows,
                   logEntry, tables, returned, requests, responses, visited,
                   appender_returns>>

\* line 150
Shape ==
    /\ pc = "shape"
    /\ calls' = Append(calls, "shape")
    /\ \/ /\ dataframe' = responseToDataframe(response)
          /\ pc' = "normalize"
          /\ UNCHANGED failure
       \/ /\ Abort("shape")
          /\ UNCHANGED dataframe
    /\ UNCHANGED <<args, shaping, page_token, counters, dates, response, rows,
                   logEntry, tables, returned, requests, responses, visited,
                   appender_returns>>

\* lines 153-165
NormalizeStep ==
    /\ pc = "normalize"
    /\ calls' = Append(calls, "normalize")
    /\ \/ /\ dataframe' = Normalize(dataframe)
          /\ pc' = "append_save"
          /\ UNCHANGED failure
       \/ /\ Abort("cast")
          /\ UNCHANGED dataframe
    /\ UNCHANGED <<args, shaping, page_token, counters, dates, response, rows,
                   logEntry, tables, returned, requests, responses, visited,
                   appender_returns>>

\* line 168 entering dataframeToSnowflake, line 67: the append to the table
AppendSave ==
    /\ pc = "append_save"
    /\ calls' = Append(calls, "append")
    /\ \/ /\ dataTable' = SaveAsTable(dataTable,
                            [page |-> Len(responses), nrows |-> dataframe.nrows])
          /\ pc' = "append_count"
          /\ UNCHANGED failure
       \/ /\ Abort("append")
          /\ UNCHANGED dataTable
    /\ UNCHANGED <<args, shaping, page_token, counters, dates, response, dataframe,
                   rows, logEntry, logTable, returned, requests, responses,
                   visited, appender_returns>>

\* line 68, and the assignment of line 168
AppendCount ==
    /\ pc = "append_count"
    /\ \/ /\ rows' = Count(dataframe)
          /\ appender_returns' = Append(appender_returns, Count(dataframe))
          /\ pc' = "accumulate"
          /\ UNCHANGED failure
       \/ /\ Abort("count")
          /\ UNCHANGED <<rows, appender_returns>>
    /\ UNCHANGED <<args, shaping, page_token, counters, dates, response, dataframe,
                   logEntry, tables, returned, requests, responses, visited,
                   calls>>

\* lines 170-171
Accumulate ==
    /\ pc = "accumulate"
    /\ total_rows' = AddRows(total_rows, rows)
    /\ api_calls_counter' = NextCounter(api_calls_counter)
    /\ pc' = "token_test"
    /\ UNCHANGED <<args, shaping, page_token, dates, response, dataframe, rows,
                   logEntry, tables, returned, failure, requests, responses,
                   visited, appender_returns, calls>>

\* lines 174-177
TokenTest ==
    /\ pc = "token_test"
    /\ page_token' = TokenAfterPage(response, page_token)
    /\ pc' = IF HasNextPageToken(response) THEN "fetch" ELSE "advance"
    /\ UNCHANGED <<args, shaping, counters, dates, response, dataframe, rows,
                   logEntry, tables, returned, failure, requests, responses,
                   visited, appender_returns, calls>>

\* line 182
Advance ==
    /\ pc = "advance"
    /\ current_date' = NextDate(current_date)
    /\ pc' = "outer_test"
    /\ UNCHANGED <<args, shaping, page_token, counters, end, current_start_date,
                   current_end_date, response, dataframe, rows, logEntry,
                   tables, returned, failure, requests, responses, visited,
                   appender_returns, calls>>

\* lines 186-201: the entry, its dataframe and the first LOADTIMESTAMP column
LogBuild ==
    /\ pc = "log_build"
    /\ logEntry' = MakeLogEntry(start_date, end_date, total_rows,
                                DataTableName, api_calls_counter)
    /\ pc' = "log_cast"
    /\ UNCHANGED <<args, shaping, page_token, counters, dates, response, dataframe,
                   rows, tables, returned, failure, requests, responses,
                   visited, appender_returns, calls>>

\* lines 202-206: line 202 reads the local `dataframe`, which only line 150
\* assigns; while it is unbound the read raises UnboundLocalError
LogCast ==
    /\ pc = "log_cast"
    /\ IF dataframe.bound
       THEN pc' = "log_save" /\ UNCHANGED failure
       ELSE Abort("unbound")
    /\ UNCHANGED <<args, shaping, page_token, counters, dates, response, dataframe,
                   rows, logEntry, tables, returned, requests, responses,
                   visited, appender_returns, calls>>

\* line 209 entering dataframeToSnowflake, line 67: the append to the log table
LogSave ==
    /\ pc = "log_save"
    /\ calls' = Append(calls, "log")
    /\ \/ /\ logTable' = SaveAsTable(logTable, logEntry)
          /\ pc' = "log_count"
          /\ UNCHANGED failure
       \/ /\ Abort("log_append")
          /\ UNCHANGED logTable
    /\ UNCHANGED <<args, shaping, page_token, counters, dates, response, dataframe,
                   rows, logEntry, dataTable, returned, requests, responses,
                   visited, appender_returns>>

\* line 68 for the log dataframe; line 209 drops the count
LogCount ==
    /\ pc = "log_count"
    /\ \/ pc' = "return" /\ UNCHANGED failure
       \/ Abort("log_count")
    /\ UNCHANGED <<args, shaping, page_token, counters, dates, response, dataframe,
                   rows, logEntry, tables, returned, requests, responses,
                   visited, appender_returns, calls>>

\* line 211
Return ==
    /\ pc = "return"
    /\ returned' = <<total_rows>>
    /\ pc' = "done"
    /\ UNCHANGED <<args, shaping, page_token, counters, dates, response, dataframe,
                   rows, logEntry, tables, failure, requests, responses,
                   visited, appender_returns, calls>>

Next ==
    \/ Setup
    \/ OuterTest
    \/ Fetch
    \/ RowsTest
    \/ Shape
    \/ NormalizeStep
    \/ AppendSave
    \/ AppendCount
    \/ Accumulate
    \/ TokenTest
    \/ Advance
    \/ LogBuild
    \/ LogCast
    \/ LogSave
    \/ LogCount
    \/ Return

Spec == Init /\ [][Next]_vars

\* the run is one sequential thread: while a step is possible, one is taken
FairSpec == Spec /\ WF_vars(Next)

----------------------------------------------------------------------------
(* responseToDataframe on its own: one call with any page of Reports *)

ShaperInit ==
    /\ pc = "shaper_entry"
    /\ dimensions \in CallerDimensions
    /\ metrics \in CallerMetrics
    /\ report \in Reports
    /\ records = NoRecords
    /\ start_date = FirstDate
    /\ end_date = FirstDate
    /\ page_token_arg = None
    /\ page_token = None
    /\ total_rows = 0
    /\ api_calls_counter = 0
    /\ current_date = strptime(FirstDate)
    /\ end = strptime(FirstDate)
    /\ current_start_date = FirstDate
    /\ current_end_date = FirstDate
    /\ response = [rows |-> Len(report.data.rows), nextPageToken |-> None]
    /\ dataframe = Unbound
    /\ rows = 0
    /\ logEntry = NoEntry
    /\ dataTable = <<>>
    /\ logTable = <<>>
    /\ returned = None
    /\ failure = "none"
    /\ requests = <<>>
    /\ responses = <<>>
    /\ visited = <<>>
    /\ appender_returns = <<>>
    /\ calls = <<>>

\* lines 38-49: the call responseToDataframe(response)
ShaperCall ==
    /\ pc = "shaper_entry"
    /\ records' = ShapedRecords(report)
    /\ pc' = "shaper_done"
    /\ UNCHANGED <<args, report, page_token, counters, dates, response,
                   dataframe, rows, logEntry, tables, returned, failure,
                   requests, responses, visited, appender_returns, calls>>

ShaperNext == ShaperCall

ShaperSpec == ShaperInit /\ [][ShaperNext]_vars

----------------------------------------------------------------------------
(* Vocabulary of the properties *)

Last(s) == s[Len(s)]

RECURSIVE SumSeq(_)
SumSeq(s) == IF s = <<>> THEN 0 ELSE s[1] + SumSeq(Tail(s))

\* the pages received so far that carried row data
DataPageIndexes == { i \in 1..Len(responses) : responses[i].rows > 0 }

\* the pages received so far without row data
EmptyPageIndexes == { i \in 1..Len(responses) : responses[i].rows = 0 }

\* the positions after the outer loop has ended normally
AfterLoop == {"log_build", "log_cast", "log_save", "log_count", "return", "done"}

\* the failures of a component: a remote call, the shaper or the normalizer
ComponentFailures ==
    {"fetch", "shape", "cast", "append", "count", "log_append", "log_count"}

\* the calendar's successor of a date string, without any day arithmetic
CalendarNext(s) ==
    IF s[3] < DaysInMonth(s[1], s[2]) THEN <<s[1], s[2], s[3] + 1>>
    ELSE IF s[2] < 12 THEN <<s[1], s[2] + 1, 1>>
    ELSE <<s[1] + 1, 1, 1>>

\* s is the same calendar day as t, or an earlier one
DateLE(s, t) ==
    \/ s[1] < t[1]
    \/ s[1] = t[1] /\ s[2] < t[2]
    \/ s[1] = t[1] /\ s[2] = t[2] /\ s[3] <= t[3]

\* the position in calls of the k-th fetch
FetchPos(k) ==
    CHOOSE p \in 1..Len(calls) :
        /\ calls[p] = "fetch"
        /\ Cardinality({ q \in 1..p : calls[q] = "fetch" }) = k

----------------------------------------------------------------------------
(* C1 *)

\* C1: total_rows is the sum of the row counts dataframeToSnowflake returned
\* for the data pages appended so far (once line 170 has added the last one),
\* and the value returned at the end of the run is that sum.
C1_TotalRowsIsSumOfAppenderCounts ==
    /\ pc # "accumulate" => total_rows = SumSeq(appender_returns)
    /\ pc = "accumulate" => total_rows + rows = SumSeq(appender_returns)
    /\ pc = "done" => returned = <<SumSeq(appender_returns)>>

\* a finished run that appended two pages of different sizes
C1_Witness ==
    /\ pc = "done"
    /\ appender_returns = <<1, 2>>
    /\ returned = <<3>>

----------------------------------------------------------------------------
(* C2 *)

\* C2: after a page with row data and a nextPageToken, the next fetch issued
\* is for the same day and carries exactly that token, and until it is issued
\* current_date stays on that day.
C2_TokenPageRefetchedSameDay ==
    /\ \A i \in 1..Len(responses) :
           (responses[i].rows > 0 /\ responses[i].nextPageToken # None
            /\ i + 1 <= Len(requests))
           => /\ requests[i + 1].startDate = requests[i].startDate
              /\ requests[i + 1].endDate = requests[i].endDate
              /\ requests[i + 1].pageToken = responses[i].nextPageToken
    /\ (/\ responses # <<>>
        /\ Len(requests) = Len(responses)
        /\ Last(responses).rows > 0
        /\ Last(responses).nextPageToken # None)
       => /\ strftime(current_date) = Last(requests).startDate
          /\ pc \notin AfterLoop \cup {"outer_test", "advance", "done"}

\* two token-carrying data pages of one day were followed up, each with its own token
C2_Witness ==
    /\ Len(requests) = 3
    /\ responses[1].rows > 0 /\ responses[1].nextPageToken = Token(1)
    /\ responses[2].rows > 0 /\ responses[2].nextPageToken = Token(2)
    /\ requests[2].pageToken = Token(1)
    /\ requests[3].pageToken = Token(2)
    /\ requests[3].startDate = requests[1].startDate

----------------------------------------------------------------------------
(* C3 *)

\* C3: the first request issued for every day carries no page token, so a
\* token received for one day is never sent in a request for a later day.
C3_FirstFetchOfDayHasNoToken ==
    \A i \in 1..Len(requests) :
        (i = 1 \/ requests[i - 1].startDate # requests[i].startDate)
        => requests[i].pageToken = None

----------------------------------------------------------------------------
(* C4 *)

\* what follows the k-th fetch in calls is never the shaper, the normalizer
\* or the appender
NothingProcessedAfterFetch(k) ==
    LET p == FetchPos(k)
    IN p < Len(calls) => calls[p + 1] \in {"fetch", "log"}

\* C4: for a page without rows the driver calls none of responseToDataframe,
\* the normalizer and dataframeToSnowflake, leaves total_rows,
\* api_calls_counter and page_token as they are (the page's own token is not
\* looked at), ends the inner loop and moves to the next day.
C4_EmptyPageEndsDay ==
    /\ [](\A i \in 1..Len(responses) :
            responses[i].rows = 0
            => /\ NothingProcessedAfterFetch(i)
               /\ i + 1 <= Len(requests)
                  => /\ requests[i + 1].startDate = CalendarNext(requests[i].startDate)
                     /\ requests[i + 1].pageToken = requests[i].pageToken)
    /\ [][(pc = "rows_test" /\ response.rows = 0)
          => /\ pc' = "advance"
             /\ UNCHANGED <<total_rows, api_calls_counter, page_token,
                            dataTable, calls, current_date>>]_vars
    /\ [][(pc = "advance" /\ response.rows = 0)
          => /\ pc' = "outer_test"
             /\ current_date' = current_date + 1
             /\ UNCHANGED <<total_rows, api_calls_counter, page_token,
                            dataTable, calls>>]_vars

\* a page without rows but with a token was received after a data page, and
\* the next day's fetch has been issued
C4_Witness ==
    /\ Len(requests) = 3
    /\ responses[1].rows > 0
    /\ responses[2].rows = 0 /\ responses[2].nextPageToken = Token(2)
    /\ requests[3].startDate # requests[2].startDate
    /\ total_rows = responses[1].rows
    /\ api_calls_counter = 1

----------------------------------------------------------------------------
(* C5 *)

\* C5: api_calls_counter counts the pages that carried row data, one per
\* page and none for a page without rows: it never exceeds their number,
\* lags it by at most the page being processed, and equals it once the
\* outer loop has ended.
C5_CounterCountsDataPages ==
    /\ api_calls_counter <= Cardinality(DataPageIndexes)
    /\ Cardinality(DataPageIndexes) <= api_calls_counter + 1
    /\ pc \in AfterLoop => api_calls_counter = Cardinality(DataPageIndexes)
    /\ (pc \in {"fetch", "outer_test", "advance", "token_test"})
       => api_calls_counter = Cardinality(DataPageIndexes)

\* a finished run that made more remote calls than it counted
C5_Witness ==
    /\ pc = "done"
    /\ Len(requests) = 3
    /\ Cardinality(EmptyPageIndexes) = 2
    /\ api_calls_counter = 1

----------------------------------------------------------------------------
(* C6 *)

\* C6: a run in which no component fails persists exactly one RunLogEntry;
\* an entry is persisted only after the outer loop has ended, having visited
\* the whole date range; no run persists more than one entry.
C6_OneLogEntryPerRun ==
    /\ (pc \in {"done", "aborted"} /\ failure \notin ComponentFailures)
       => Len(logTable) = 1
    /\ logTable # <<>>
       => /\ pc \in {"log_count", "return", "done", "aborted"}
          /\ visited # <<>> => Last(visited) = end_date
    /\ Len(logTable) <= 1

----------------------------------------------------------------------------
(* C7 *)

\* day 1 answered with two data pages, the first with a token and the second
\* without, day 2 answered without rows, and the run has ended
TwoDayScenario ==
    /\ pc = "done"
    /\ end_date = CalendarNext(start_date)
    /\ Len(responses) = 3
    /\ responses[1].rows > 0 /\ responses[1].nextPageToken # None
    /\ responses[2].rows > 0 /\ responses[2].nextPageToken = None
    /\ responses[3].rows = 0

\* C7: the entry in the log table records the start_date and end_date
\* arguments, the data table, the rows of all data pages (the value the run
\* returns) and the number of data pages; in the two-day scenario that is
\* rows(page 1) + rows(page 2), 2 calls and day 2 as EndDate.
C7_LogEntryFields ==
    /\ \A k \in 1..Len(logTable) :
           /\ logTable[k].StartDate = start_date
           /\ logTable[k].EndDate = end_date
           /\ logTable[k].TableName = DataTableName
           /\ logTable[k].RecordsSent = total_rows
           /\ logTable[k].RecordsSent =
                  SumSeq([i \in 1..Len(responses) |-> responses[i].rows])
           /\ logTable[k].APICalls = api_calls_counter
           /\ logTable[k].APICalls = Cardinality(DataPageIndexes)
           /\ pc = "done" => returned = <<logTable[k].RecordsSent>>
    /\ pc = "done" => Len(logTable) = 1
    /\ TwoDayScenario
       => /\ logTable[1].RecordsSent = responses[1].rows + responses[2].rows
          /\ logTable[1].APICalls = 2
          /\ logTable[1].EndDate = requests[3].startDate
          /\ logTable[1].EndDate # requests[1].startDate

\* the two-day scenario with pages of 1 and 2 rows
C7_Witness ==
    /\ TwoDayScenario
    /\ responses[1].rows = 1
    /\ responses[2].rows = 2
    /\ logTable[1].RecordsSent = 3

----------------------------------------------------------------------------
(* C8 *)

\* C8 as stated: once a component has failed the run is over, nothing was
\* returned and the log table holds no entry.
C8_FailureLeavesNoLogEntry ==
    failure # "none"
    => /\ pc = "aborted"
       /\ returned = None
       /\ logTable = <<>>

\* C8, amended: once a component has failed the run is over: no step
\* follows, the failing step itself writes nothing and changes no counter,
\* and nothing is returned; the log table holds no entry, unless the call
\* that failed is the row count of the log append (line 68), which runs after
\* line 67 has saved the entry.
C8_FailureAbortsRun ==
    /\ [](failure # "none"
          => /\ pc = "aborted"
             /\ returned = None
             /\ failure # "log_count" => logTable = <<>>
             /\ failure = "log_count" => Len(logTable) = 1)
    /\ [][failure = "none"]_vars
    /\ [][failure' # "none"
          => UNCHANGED <<dataTable, logTable, total_rows, api_calls_counter,
                         returned, page_token, current_date>>]_vars

\* an append failed after a page had been transferred and counted
C8_Witness ==
    /\ pc = "aborted"
    /\ failure = "append"
    /\ total_rows > 0
    /\ Len(dataTable) = 1
    /\ Len(requests) = 2

----------------------------------------------------------------------------
(* C9 *)

\* C9: the outer loop visits the calendar days from start_date on, one per
\* iteration, each the calendar successor of the one before and none after
\* end_date; when the loop has ended it has visited every day up to
\* end_date, exactly one day when start_date = end_date.
C9_EveryDayOnceAscending ==
    /\ visited # <<>> => visited[1] = start_date
    /\ \A i \in 1..Len(visited) : DateLE(visited[i], end_date)
    /\ \A i \in 1..(Len(visited) - 1) : visited[i + 1] = CalendarNext(visited[i])
    /\ (pc \in AfterLoop /\ DateLE(start_date, end_date))
       => visited # <<>> /\ Last(visited) = end_date
    /\ (pc \in AfterLoop /\ start_date = end_date) => Len(visited) = 1

\* the loop has ended after 28 February, 29 February and 1 March 2024
C9_Witness ==
    /\ pc \in AfterLoop
    /\ visited = <<FirstDate, <<2024, 2, 29>>, <<2024, 3, 1>>>>

----------------------------------------------------------------------------
(* C10 *)

\* C10: the first fetch of the run carries the page_token the caller passed.
C10_CallerTokenOnFirstFetch ==
    requests # <<>> => requests[1].pageToken = page_token_arg

----------------------------------------------------------------------------
(* C11 *)

\* C11: writes to the data table only append: every step leaves the batches
\* already in the table as they are, a write adds one batch, with the rows of
\* the dataframe it was given, and the count the appender then returns is
\* that batch's size; a run that aborts leaves every batch written before
\* the failure in the table.
C11_AppendOnlyDataTable ==
    /\ [][/\ Len(dataTable') >= Len(dataTable)
          /\ SubSeq(dataTable', 1, Len(dataTable)) = dataTable]_vars
    /\ [][pc = "append_save" /\ pc' = "append_count"
          => /\ Len(dataTable') = Len(dataTable) + 1
             /\ Last(dataTable').nrows = response.rows
             /\ Last(dataTable').page = Len(responses)]_vars
    /\ [][pc # "append_save" => dataTable' = dataTable]_vars
    /\ [](/\ Len(appender_returns) <= Len(dataTable)
          /\ Len(dataTable) <= Len(appender_returns) + 1
          /\ \A i \in 1..Len(appender_returns) :
                 dataTable[i].nrows = appender_returns[i]
          /\ \A i \in 1..Len(dataTable) :
                 /\ dataTable[i].page \in DataPageIndexes
                 /\ dataTable[i].nrows = responses[dataTable[i].page].rows
                 /\ \A j \in 1..Len(dataTable) :
                        dataTable[i].page = dataTable[j].page => i = j)

\* a run aborted by a failed fetch after two pages had been written
C11_Witness ==
    /\ pc = "aborted"
    /\ failure = "fetch"
    /\ Len(dataTable) = 2
    /\ dataTable[1].nrows = 1
    /\ dataTable[2].nrows = 2

----------------------------------------------------------------------------
(* C12 *)

\* the positions inside the inner loop
InnerLoop ==
    {"fetch", "rows_test", "shape", "normalize", "append_save",
     "append_count", "accumulate", "token_test"}

\* the run needs a fetch beyond the ones the model follows
FetchBlocked == pc = "fetch" /\ Len(requests) >= MaxFetches

\* the calls made for day d that were answered
DayResponses(d) == { i \in 1..Len(responses) : requests[i].startDate = d }

\* every call made for day d so far was answered with rows and a nextPageToken
TokenOnEveryCall(d) ==
    /\ DayResponses(d) # {}
    /\ \A i \in DayResponses(d) :
           responses[i].rows > 0 /\ responses[i].nextPageToken # None

\* the outer loop ends, unless a component fails or the pages do not end
\* within the fetches the model follows
LoopEndsOrRunStops ==
    <>(pc \in AfterLoop \/ failure \in ComponentFailures \/ FetchBlocked)

\* while a day's calls are all answered with rows and a token, the run stays
\* in that day's inner loop
TokenForeverKeepsDay ==
    [](\A d \in DateStrings :
          (TokenOnEveryCall(d) /\ failure = "none")
          => /\ pc \in InnerLoop
             /\ current_start_date = d
             /\ strftime(current_date) = d
             /\ logTable = <<>>)

\* C12: a run whose days all end (a page without rows, or one without a
\* nextPageToken) reaches the log step and returns, no component failing;
\* while a day's calls are all answered with rows and a token the run
\* neither reaches the next day nor the log step.
C12_RunTerminates ==
    /\ LoopEndsOrRunStops
    /\ <>(pc = "done" \/ failure \in ComponentFailures \/ FetchBlocked)
    /\ TokenForeverKeepsDay

----------------------------------------------------------------------------
(* C13 *)

\* C13: every request asks for one day: its startDate and endDate are the
\* same date, that date is the day the outer loop is on when the request is
\* issued, and it lies between start_date and end_date.
C13_RequestsAreSingleDays ==
    /\ \A i \in 1..Len(requests) :
           /\ requests[i].startDate = requests[i].endDate
           /\ DateLE(start_date, requests[i].startDate)
           /\ DateLE(requests[i].startDate, end_date)
           /\ \E k \in 1..Len(visited) : visited[k] = requests[i].startDate
    /\ (pc \in InnerLoop \ {"fetch"})
       => /\ Last(requests).startDate = strftime(current_date)
          /\ Last(requests).startDate = Last(visited)

\* requests were issued for 29 February and 1 March of a three-day range
C13_Witness ==
    /\ start_date = FirstDate
    /\ end_date = <<2024, 3, 1>>
    /\ Len(requests) = 3
    /\ requests[2].startDate = <<2024, 2, 29>>
    /\ requests[3].endDate = <<2024, 3, 1>>

----------------------------------------------------------------------------
(* C14 *)

\* the data pages among the first i pages received
DataPagesUpTo(i) == { j \in DataPageIndexes : j <= i }

\* C14: a data page goes through fetch, shape, normalize, append in that
\* order, nothing in between; its append has returned before the next fetch
\* is issued; the logger is called after every fetch and every data append
\* of the run, and nothing is called after it.
C14_PipelineOrder ==
    /\ \A p \in 1..Len(calls) :
           /\ calls[p] = "shape" => p > 1 /\ calls[p - 1] = "fetch"
           /\ calls[p] = "normalize" => p > 1 /\ calls[p - 1] = "shape"
           /\ calls[p] = "append" => p > 1 /\ calls[p - 1] = "normalize"
           /\ calls[p] = "fetch" => p = 1 \/ calls[p - 1] \in {"fetch", "append"}
           /\ calls[p] = "log" => p = Len(calls)
    /\ \A i \in DataPageIndexes :
           (i < Len(requests) \/ pc \in AfterLoop \cup {"done"})
           => /\ SubSeq(calls, FetchPos(i), FetchPos(i) + 3)
                     = <<"fetch", "shape", "normalize", "append">>
              /\ Len(appender_returns) >= Cardinality(DataPagesUpTo(i))
              /\ \E b \in 1..Len(dataTable) : dataTable[b].page = i
    /\ (calls # <<>> /\ Last(calls) = "log")
       => /\ pc \in {"log_count", "return", "done", "aborted"}
          /\ Len(requests) = Len(responses)
          /\ Len(dataTable) = Cardinality(DataPageIndexes)
          /\ Len(appender_returns) = Cardinality(DataPageIndexes)
          /\ Last(visited) = end_date
    /\ pc \notin {"log_count", "return", "done", "aborted"} => logTable = <<>>

\* two data pages went through the pipeline, then an empty page, then the logger
C14_Witness ==
    calls = <<"fetch", "shape", "normalize", "append",
              "fetch", "shape", "normalize", "append", "fetch", "log">>

----------------------------------------------------------------------------
(* C15 *)

\* the calendar days from start_date to end_date, none when start_date is later
DaysInRange == { d \in DateStrings : DateLE(start_date, d) /\ DateLE(d, end_date) }

\* C15: when the outer loop has ended, the fetches made are the data pages
\* counted by api_calls_counter plus the pages without rows; a day has at
\* most one page without rows, so the fetches exceed api_calls_counter by at
\* most the number of days of the range; and every day of the range was
\* fetched at least once.
C15_FetchesVersusCounter ==
    /\ \A d \in DateStrings :
           Cardinality({ i \in EmptyPageIndexes : requests[i].startDate = d }) <= 1
    /\ pc \in AfterLoop
       => /\ Len(requests) = api_calls_counter + Cardinality(EmptyPageIndexes)
          /\ Len(requests) - api_calls_counter <= Cardinality(DaysInRange)
          /\ \A d \in DaysInRange : \E i \in 1..Len(requests) : requests[i].startDate = d

\* a finished two-day run: a two-row page and a page without rows on day 1,
\* a page without rows on day 2
C15_Witness ==
    /\ pc = "done"
    /\ Cardinality(DaysInRange) = 2
    /\ Len(requests) = 3
    /\ responses[1].rows = 2
    /\ api_calls_counter = 1
    /\ Cardinality(EmptyPageIndexes) = 2

----------------------------------------------------------------------------
(* C16 *)

\* the number of values in the entries of a row's metrics before entry q
RECURSIVE ValuesBefore(_, _)
ValuesBefore(ms, q) ==
    IF q = 1 THEN 0 ELSE ValuesBefore(ms, q - 1) + Len(ms[q - 1].values)

\* C16: responseToDataframe returns one record per row of the page, in the
\* page's order; its columns are the header's dimension names followed by
\* the header's metric names, whatever lists the caller asked with; record i
\* holds row i's dimension values followed by its metric values, entry by
\* entry.
C16_ShaperRecords ==
    pc = "shaper_done"
    => LET hd == report.columnHeader.dimensions
           he == report.columnHeader.metricHeader.metricHeaderEntries
           rs == report.data.rows
       IN /\ Len(records.schema) = Len(hd) + Len(he)
          /\ \A j \in 1..Len(hd) : records.schema[j] = hd[j]
          /\ \A k \in 1..Len(he) : records.schema[Len(hd) + k] = he[k].name
          /\ Len(records.data) = Len(rs)
          /\ \A i \in 1..Len(rs) :
                 /\ Len(records.data[i]) = Len(records.schema)
                 /\ \A j \in 1..Len(rs[i].dimensions) :
                        records.data[i][j] = rs[i].dimensions[j]
                 /\ \A q \in 1..Len(rs[i].metrics) :
                        \A r \in 1..Len(rs[i].metrics[q].values) :
                            records.data[i][Len(rs[i].dimensions)
                                            + ValuesBefore(rs[i].metrics, q) + r]
                                = rs[i].metrics[q].values[r]

\* a two-row page whose header declares one dimension and two metrics, shaped
\* for a caller that asked for two dimensions and one metric
C16_Witness ==
    /\ pc = "shaper_done"
    /\ dimensions = <<"ga:date", "ga:source">>
    /\ metrics = <<"ga:sessions">>
    /\ records.schema = <<"ga:date", "ga:sessions", "ga:users">>
    /\ records.data = <<<<"20240228", "1", "2">>, <<"google", "2", "2">>>>

----------------------------------------------------------------------------
(* C17 *)

\* C17: a run whose fetches all succeed and bring no page with rows ends
\* normally: it writes nothing to the data table, returns 0 and appends one
\* log entry with RecordsSent = 0 and APICalls = 0.
C17_RunWithoutDataIsLogged ==
    /\ (/\ pc \in {"done", "aborted"}
        /\ responses # <<>>
        /\ DataPageIndexes = {}
        /\ failure \notin ComponentFailures)
       => /\ pc = "done"
          /\ returned = <<0>>
          /\ dataTable = <<>>
          /\ logTable = <<MakeLogEntry(start_date, end_date, 0, DataTableName, 0)>>
    /\ (/\ pc \in AfterLoop
        /\ responses # <<>>
        /\ DataPageIndexes = {})
       => /\ total_rows = 0
          /\ api_calls_counter = 0
          /\ dataTable = <<>>

----------------------------------------------------------------------------
(* C18 *)

\* C18: with start_date later than end_date the outer loop does not run: no
\* day is visited, nothing is fetched, shaped or appended, and total_rows and
\* api_calls_counter are 0 when the log step is reached, which it is right
\* after the loop test.
C18_EmptyRangeSkipsLoop ==
    ~DateLE(start_date, end_date)
    => /\ visited = <<>>
       /\ requests = <<>>
       /\ calls = <<>>
       /\ dataTable = <<>>
       /\ pc \notin InnerLoop \cup {"advance"}
       /\ pc \in AfterLoop => total_rows = 0 /\ api_calls_counter = 0
       /\ logEntry # NoEntry
          => logEntry = MakeLogEntry(start_date, end_date, 0, DataTableName, 0)

\* the log step reached for a range that ends the day before it starts
C18_Witness ==
    /\ start_date = <<2024, 2, 29>>
    /\ end_date = FirstDate
    /\ pc = "log_cast"
    /\ logEntry.RecordsSent = 0
    /\ logEntry.APICalls = 0

====
